---- MODULE Spec2Model ----
(***************************************************************************)
(* Model of the Eden Bible API (src/server.js): the book identifier       *)
(* resolver, the prev/next navigation routes and the plain-text search.   *)
(*                                                                         *)
(* Strings are sequences of one-character strings, so that String(),      *)
(* Number(), LOWER() and LIKE are computed and not assumed.  A nullable   *)
(* value (SQL NULL, JS null/undefined) is a set with at most one element: *)
(* {} is null and {x} is the value x.                                      *)
(*                                                                         *)
(* books and verses are the rows of the two base tables.  shapes is the   *)
(* rest of the schema: the views verses_api and verses_with_book, the     *)
(* full-text table verses_fts, and whether the base table verses can be   *)
(* queried.  reqs holds the requests in flight of the interleaved runs,   *)
(* res the last request of a session with its response.                   *)
(***************************************************************************)
EXTENDS Integers, Sequences, FiniteSets, TLC

VARIABLES books, verses, shapes, reqs, res

vars == <<books, verses, shapes, reqs, res>>

(***************************************************************************)
(* Bounds of the model.                                                    *)
(***************************************************************************)
MaxBook == 3
MaxChapter == 2
MaxVerse == 2
MaxRows == 4
MaxKey == 2
MaxHits == 201
MaxLen == 3
MaxShapeRows == 1
MaxReq == 2

(***************************************************************************)
(* Characters and strings.                                                 *)
(***************************************************************************)
DigitChars == <<"0", "1", "2", "3", "4", "5", "6", "7", "8", "9">>

IsDigit(c) == \E i \in 1..10 : DigitChars[i] = c

DigitVal(c) == (CHOOSE i \in 1..10 : DigitChars[i] = c) - 1

\* String(n) of a non-negative integer
RECURSIVE ToStr(_)
ToStr(n) ==
  IF n < 10 THEN <<DigitChars[n + 1]>>
  ELSE ToStr(n \div 10) \o <<DigitChars[(n % 10) + 1]>>

\* value of a non-empty string of decimal digits
RECURSIVE DigitsVal(_)
DigitsVal(s) ==
  IF Len(s) = 1 THEN DigitVal(s[1])
  ELSE 10 * DigitsVal(SubSeq(s, 1, Len(s) - 1)) + DigitVal(s[Len(s)])

Null == {}

Some(x) == {x}

The(o) == CHOOSE x \in o : TRUE

SetMin(S) == CHOOSE x \in S : \A y \in S : x <= y

SetMax(S) == CHOOSE x \in S : \A y \in S : x >= y

\* SELECT MIN(col) ... : one row whose column is NULL when no row qualifies
SqlMin(S) == IF S = {} THEN Null ELSE Some(SetMin(S))

\* SELECT MAX(col) ...
SqlMax(S) == IF S = {} THEN Null ELSE Some(SetMax(S))

(***************************************************************************)
(* The store.  books: rows of table books; verses: rows of table verses.  *)
(***************************************************************************)
BookIds == {b.book_id : b \in books}

\* SELECT book_id FROM books ORDER BY CAST(book_id AS INTEGER)
RECURSIVE SortedIds(_)
SortedIds(S) ==
  IF S = {} THEN <<>>
  ELSE <<SetMin(S)>> \o SortedIds(S \ {SetMin(S)})

OrderedBooks == SortedIds(BookIds)

\* rows.findIndex(r => String(r.book_id) === String(bookId)), 0-based, -1 if absent
FindIndex(rows, bookId) ==
  IF \E i \in 1..Len(rows) : ToStr(rows[i]) = bookId
  THEN (CHOOSE i \in 1..Len(rows) :
          /\ ToStr(rows[i]) = bookId
          /\ \A j \in 1..(i - 1) : ToStr(rows[j]) # bookId) - 1
  ELSE -1

\* WHERE book_id = ? with a text parameter: the column's integer affinity
\* converts a well-formed decimal text to its number before comparing
BookIdEq(id, param) ==
  /\ Len(param) > 0
  /\ \A i \in 1..Len(param) : IsDigit(param[i])
  /\ DigitsVal(param) = id

ChaptersOf(id) == {v.chapter : v \in {w \in verses : w.book_id = id}}

ChaptersOfParam(bookId) ==
  {v.chapter : v \in {w \in verses : BookIdEq(w.book_id, bookId)}}

VersesOf(id, ch) ==
  {v.verse : v \in {w \in verses : w.book_id = id /\ w.chapter = ch}}

VersesOfParam(bookId, ch) ==
  {v.verse : v \in {w \in verses : BookIdEq(w.book_id, bookId) /\ w.chapter = ch}}

(***************************************************************************)
(* Text functions of JavaScript and SQLite.                                *)
(***************************************************************************)
UpperChars == <<"A", "B", "C", "D", "E", "F", "G", "H", "I", "J", "K", "L", "M",
                "N", "O", "P", "Q", "R", "S", "T", "U", "V", "W", "X", "Y", "Z">>

LowerChars == <<"a", "b", "c", "d", "e", "f", "g", "h", "i", "j", "k", "l", "m",
                "n", "o", "p", "q", "r", "s", "t", "u", "v", "w", "x", "y", "z">>

\* LOWER() / toLowerCase() of one character
LowerChar(c) ==
  IF \E i \in 1..26 : UpperChars[i] = c
  THEN LowerChars[CHOOSE i \in 1..26 : UpperChars[i] = c]
  ELSE c

Lower(s) == [i \in 1..Len(s) |-> LowerChar(s[i])]

\* characters that \s matches and trim() strips (space, tab, LF, CR, NBSP)
IsSpace(c) == c \in {" ", "\t", "\n", "\r", "nbsp"}

RECURSIVE TrimLeft(_)
TrimLeft(s) ==
  IF s # <<>> /\ IsSpace(Head(s)) THEN TrimLeft(Tail(s)) ELSE s

RECURSIVE TrimRight(_)
TrimRight(s) ==
  IF s # <<>> /\ IsSpace(s[Len(s)]) THEN TrimRight(SubSeq(s, 1, Len(s) - 1)) ELSE s

\* String.prototype.trim
Trim(s) == TrimRight(TrimLeft(s))

\* /^\d+$/.test(raw)
AllDigits(s) == Len(s) > 0 /\ \A i \in 1..Len(s) : IsDigit(s[i])

\* Number(raw) for a trimmed string over the model's alphabet: "" is 0, an
\* optionally signed digit string is its value, anything else is NaN (Null).
\* (Forms with '.', 'e', 'x' or "Infinity" are outside the alphabet.)
NumberOf(s) ==
  IF s = <<>> THEN Some(0)
  ELSE IF AllDigits(s) THEN Some(DigitsVal(s))
  ELSE IF Head(s) = "+" /\ AllDigits(Tail(s)) THEN Some(DigitsVal(Tail(s)))
  ELSE IF Head(s) = "-" /\ AllDigits(Tail(s)) THEN Some(0 - DigitsVal(Tail(s)))
  ELSE Null

\* SQLite's  t LIKE p  (no ESCAPE clause): '%' matches any run of characters,
\* '_' matches exactly one, other characters match case-insensitively
RECURSIVE Like(_, _)
Like(t, p) ==
  IF p = <<>> THEN t = <<>>
  ELSE IF Head(p) = "%"
       THEN Like(t, Tail(p)) \/ (t # <<>> /\ Like(Tail(t), p))
  ELSE /\ t # <<>>
       /\ (Head(p) = "_" \/ LowerChar(Head(p)) = LowerChar(Head(t)))
       /\ Like(Tail(t), Tail(p))

(***************************************************************************)
(* resolveBookId.  Each db.get has no ORDER BY, so when several rows       *)
(* qualify the store may hand back any one of them: a step is the set of   *)
(* rows it can return.                                                     *)
(***************************************************************************)
\* SELECT book_id FROM books WHERE book_id = ?
ById(n) == {b.book_id : b \in {r \in books : r.book_id = n}}

\* SELECT book_id FROM books WHERE code = ?
ByCode(raw) == {b.book_id : b \in {r \in books : r.code = Some(raw)}}

\* SELECT book_id FROM books WHERE LOWER(name) = LOWER(?)
ByName(raw) == {b.book_id : b \in {r \in books : Lower(r.name) = Lower(raw)}}

\* SELECT book_id FROM books WHERE LOWER(name) LIKE LOWER(?)
ByLike(pattern) ==
  {b.book_id : b \in {r \in books : Like(Lower(r.name), Lower(pattern))}}

\* the steps after the strict-digit lookup, on the trimmed input
ResolveRest(raw) ==
  IF ByCode(raw) # {} THEN {Some(ToStr(id)) : id \in ByCode(raw)}
  ELSE IF ByName(raw) # {} THEN {Some(ToStr(id)) : id \in ByName(raw)}
  ELSE IF ByLike(raw \o <<"%">>) # {}
       THEN {Some(ToStr(id)) : id \in ByLike(raw \o <<"%">>)}
  ELSE IF ByLike(<<"%">> \o raw \o <<"%">>) # {}
       THEN {Some(ToStr(id)) : id \in ByLike(<<"%">> \o raw \o <<"%">>)}
  ELSE IF NumberOf(raw) # Null /\ ById(The(NumberOf(raw))) # {}
       THEN {Some(ToStr(id)) : id \in ById(The(NumberOf(raw)))}
  ELSE {Null}

\* resolveBookId trying the short code before the strict-digit key
resolveBookId_CodeBeforeKey(input) ==
  IF input = <<>> THEN {Null}
  ELSE LET raw == Trim(input)
       IN  IF ByCode(raw) # {} THEN {Some(ToStr(id)) : id \in ByCode(raw)}
           ELSE IF AllDigits(raw) /\ ById(DigitsVal(raw)) # {}
           THEN {Some(ToStr(id)) : id \in ById(DigitsVal(raw))}
           ELSE ResolveRest(raw)

\* resolveBookId trying the display name before the short code
resolveBookId_NameBeforeCode(input) ==
  IF input = <<>> THEN {Null}
  ELSE LET raw == Trim(input)
       IN  IF AllDigits(raw) /\ ById(DigitsVal(raw)) # {}
           THEN {Some(ToStr(id)) : id \in ById(DigitsVal(raw))}
           ELSE IF ByName(raw) # {} THEN {Some(ToStr(id)) : id \in ByName(raw)}
           ELSE ResolveRest(raw)

\* resolveBookId without the short code step
resolveBookId_NoCodeStep(input) ==
  IF input = <<>> THEN {Null}
  ELSE LET raw == Trim(input)
       IN  IF AllDigits(raw) /\ ById(DigitsVal(raw)) # {}
           THEN {Some(ToStr(id)) : id \in ById(DigitsVal(raw))}
           ELSE IF ByName(raw) # {} THEN {Some(ToStr(id)) : id \in ByName(raw)}
           ELSE IF ByLike(raw \o <<"%">>) # {}
                THEN {Some(ToStr(id)) : id \in ByLike(raw \o <<"%">>)}
           ELSE IF ByLike(<<"%">> \o raw \o <<"%">>) # {}
                THEN {Some(ToStr(id)) : id \in ByLike(<<"%">> \o raw \o <<"%">>)}
           ELSE IF NumberOf(raw) # Null /\ ById(The(NumberOf(raw))) # {}
                THEN {Some(ToStr(id)) : id \in ById(The(NumberOf(raw)))}
           ELSE {Null}

\* the values resolveBookId(input) can return: Null or Some(String(book_id))
resolveBookId(input) ==
  IF input = <<>> THEN {Null}
  ELSE LET raw == Trim(input)
       IN  IF AllDigits(raw) /\ ById(DigitsVal(raw)) # {}
           THEN {Some(ToStr(id)) : id \in ById(DigitsVal(raw))}
           ELSE ResolveRest(raw)

(***************************************************************************)
(* Navigation routes.  A position is a record; bookId is the string the    *)
(* JSON body carries (String() of a store key, or the request parameter).  *)
(* chapter and verse parameters are decimal numbers, compared as integers  *)
(* under the columns' integer affinity.                                    *)
(***************************************************************************)
\* navBook without the idx >= 0 test on the next link
navBook_NoFoundTest(bookId) ==
  LET orderRows == OrderedBooks
      idx == FindIndex(orderRows, bookId)
  IN  [prev |-> IF idx > 0 THEN Some(orderRows[idx]) ELSE Null,
       next |-> IF idx < Len(orderRows) - 1
                THEN Some(orderRows[idx + 2]) ELSE Null]

\* GET /api/nav/book/:bookId : {prev, next} as nullable book keys
navBook(bookId) ==
  LET orderRows == OrderedBooks
      idx == FindIndex(orderRows, bookId)
  IN  [prev |-> IF idx > 0 THEN Some(orderRows[idx]) ELSE Null,
       next |-> IF idx >= 0 /\ idx < Len(orderRows) - 1
                THEN Some(orderRows[idx + 2]) ELSE Null]

\* the prev branch of GET /api/nav/chapter/:bookId/:chapter
navChapterPrev(bookId, chapter) ==
  LET prevRow == SqlMax({c \in ChaptersOfParam(bookId) : c < chapter})
      bks == OrderedBooks
      idx == FindIndex(bks, bookId)
  IN  IF prevRow # Null
      THEN Some([bookId |-> bookId, chapter |-> The(prevRow)])
      ELSE IF idx > 0
           THEN LET prevBook == bks[idx]
                    prevChap == SqlMax(ChaptersOf(prevBook))
                IN  IF prevChap # Null
                    THEN Some([bookId |-> ToStr(prevBook), chapter |-> The(prevChap)])
                    ELSE Null
           ELSE Null

\* navChapterNext taking the next book's last chapter instead of its first
navChapterNext_LastOfNextBook(bookId, chapter) ==
  LET nextRow == SqlMin({c \in ChaptersOfParam(bookId) : c > chapter})
      bks == OrderedBooks
      idx == FindIndex(bks, bookId)
  IN  IF nextRow # Null
      THEN Some([bookId |-> bookId, chapter |-> The(nextRow)])
      ELSE IF idx >= 0 /\ idx < Len(bks) - 1
           THEN LET nextBook == bks[idx + 2]
                    nextChap == SqlMax(ChaptersOf(nextBook))
                IN  IF nextChap # Null
                    THEN Some([bookId |-> ToStr(nextBook), chapter |-> The(nextChap)])
                    ELSE Null
           ELSE Null

\* navChapterNext going on to the first later book that has chapters
navChapterNext_Cascade(bookId, chapter) ==
  LET nextRow == SqlMin({c \in ChaptersOfParam(bookId) : c > chapter})
      bks == OrderedBooks
      idx == FindIndex(bks, bookId)
      later == {i \in (idx + 2)..Len(bks) : ChaptersOf(bks[i]) # {}}
  IN  IF nextRow # Null
      THEN Some([bookId |-> bookId, chapter |-> The(nextRow)])
      ELSE IF idx >= 0 /\ later # {}
           THEN Some([bookId |-> ToStr(bks[SetMin(later)]),
                      chapter |-> SetMin(ChaptersOf(bks[SetMin(later)]))])
           ELSE Null

\* the next branch of GET /api/nav/chapter/:bookId/:chapter
navChapterNext(bookId, chapter) ==
  LET nextRow == SqlMin({c \in ChaptersOfParam(bookId) : c > chapter})
      bks == OrderedBooks
      idx == FindIndex(bks, bookId)
  IN  IF nextRow # Null
      THEN Some([bookId |-> bookId, chapter |-> The(nextRow)])
      ELSE IF idx >= 0 /\ idx < Len(bks) - 1
           THEN LET nextBook == bks[idx + 2]
                    nextChap == SqlMin(ChaptersOf(nextBook))
                IN  IF nextChap # Null
                    THEN Some([bookId |-> ToStr(nextBook), chapter |-> The(nextChap)])
                    ELSE Null
           ELSE Null

\* the next branch of GET /api/nav/verse/:bookId/:chapter/:verse, bookId resolved
navVerseNext(bookId, chapter, verse) ==
  LET nextSame == SqlMin({v \in VersesOfParam(bookId, chapter) : v > verse})
      bks == OrderedBooks
      idx == FindIndex(bks, bookId)
  IN  IF nextSame # Null
      THEN Some([bookId |-> bookId, chapter |-> chapter, verse |-> The(nextSame)])
      ELSE IF idx >= 0 /\ idx < Len(bks) - 1
           THEN LET nextBook == bks[idx + 2]
                    nextChap == SqlMin(ChaptersOf(nextBook))
                IN  IF nextChap # Null
                    THEN Some([bookId |-> ToStr(nextBook), chapter |-> The(nextChap),
                               verse |-> The(SqlMin(VersesOf(nextBook, The(nextChap))))])
                    ELSE Null
           ELSE Null

\* the prev branch of GET /api/nav/verse/:bookId/:chapter/:verse, bookId resolved
navVersePrev(bookId, chapter, verse) ==
  LET prevSame == SqlMax({v \in VersesOfParam(bookId, chapter) : v < verse})
      bks == OrderedBooks
      idx == FindIndex(bks, bookId)
  IN  IF prevSame # Null
      THEN Some([bookId |-> bookId, chapter |-> chapter, verse |-> The(prevSame)])
      ELSE IF idx > 0
           THEN LET prevBook == bks[idx]
                    prevChap == SqlMax(ChaptersOf(prevBook))
                IN  IF prevChap # Null
                    THEN Some([bookId |-> ToStr(prevBook), chapter |-> The(prevChap),
                               verse |-> The(SqlMax(VersesOf(prevBook, The(prevChap))))])
                    ELSE Null
           ELSE Null

(***************************************************************************)
(* Request handlers of the navigation routes.  res is the last request    *)
(* together with the response it got.  A behaviour is one client session: *)
(* a first request on any route, then requests built from the response    *)
(* (following a link, repeating the request).  The handlers keep no state *)
(* between requests, so a session's first request sees every state a      *)
(* later one would.                                                        *)
(***************************************************************************)
NoRes == [route |-> "none"]

\* a view or table the schema does not have: a statement naming it throws
Missing == [state |-> "absent", rows |-> {}]

\* a schema with the base tables only, both queryable
BaseOnly == [verses_api |-> Missing, verses_with_book |-> Missing,
             verses |-> "ok", verses_fts |-> "absent"]

\* no request in flight
NoReqs == <<>>

\* :bookId parameters: the decimal strings of present and absent keys
BookParams == {ToStr(k) : k \in 1..(MaxBook + 1)}

\* display name of book k in the navigation corpora
NavName(k) == <<"b">> \o ToStr(k)

ChapterParams == 0..(MaxChapter + 1)

VerseParams == 0..(MaxVerse + 1)

\* app.get("/api/nav/book/:bookId")
NavBook ==
  \E bookId \in BookParams :
    /\ res.route = "none"
    /\ res' = [route |-> "nav/book", bookId |-> bookId, status |-> 200,
               prev |-> navBook(bookId).prev, next |-> navBook(bookId).next]
    /\ UNCHANGED <<books, verses, shapes, reqs>>

\* app.get("/api/nav/chapter/:bookId/:chapter")
NavChapter ==
  \E bookId \in BookParams, chapter \in ChapterParams :
    /\ res.route = "none"
    /\ res' = [route |-> "nav/chapter", bookId |-> bookId, chapter |-> chapter,
               status |-> 200,
               prev |-> navChapterPrev(bookId, chapter),
               next |-> navChapterNext(bookId, chapter)]
    /\ UNCHANGED <<books, verses, shapes, reqs>>

\* the handler of GET /api/nav/verse/:bookId/:chapter/:verse on one request;
\* from is the position whose next link the client followed to get here
NavVerseOn(raw, chapter, verse, from) ==
  \E r \in resolveBookId(raw) :
    /\ res' = IF r = Null
              THEN [route |-> "nav/verse", raw |-> raw, chapter |-> chapter,
                    verse |-> verse, status |-> 404, bookId |-> Null,
                    prev |-> Null, next |-> Null, from |-> from]
              ELSE [route |-> "nav/verse", raw |-> raw, chapter |-> chapter,
                    verse |-> verse, status |-> 200, bookId |-> r,
                    prev |-> navVersePrev(The(r), chapter, verse),
                    next |-> navVerseNext(The(r), chapter, verse), from |-> from]
    /\ UNCHANGED <<books, verses, shapes, reqs>>

\* a client asks for the neighbours of any position
NavVerse ==
  \E raw \in BookParams, chapter \in ChapterParams, verse \in VerseParams :
    /\ res.route = "none"
    /\ NavVerseOn(raw, chapter, verse, Null)

\* a client follows the next link of the last nav/verse response
NavVerseFollowNext ==
  /\ res.route = "nav/verse"
  /\ res.status = 200
  /\ res.next # Null
  /\ NavVerseOn(The(res.next).bookId, The(res.next).chapter, The(res.next).verse,
                Some([bookId |-> The(res.bookId), chapter |-> res.chapter,
                      verse |-> res.verse]))

NavBooks(K) == {[book_id |-> k, code |-> Null, name |-> NavName(k)] : k \in K}

NavRow(b, c, v) ==
  [book_id |-> b, chapter |-> c, verse |-> v, text_plain |-> Some(<<"a">>)]

\* corpora of the book and chapter navigation: any set of books, any set of
\* chapters per book (a chapter exists when it has a verse)
InitNavChapter ==
  \E K \in SUBSET (1..MaxBook) :
    /\ books = NavBooks(K)
    /\ verses \in {{NavRow(p[1], p[2], 1) : p \in S} :
                     S \in SUBSET (K \X (1..MaxChapter))}
    /\ shapes = BaseOnly
    /\ reqs = NoReqs
    /\ res = NoRes

NextNavChapter == NavBook \/ NavChapter

SpecNavChapter == InitNavChapter /\ [][NextNavChapter]_vars

\* corpora of the verse navigation: any set of books, at most MaxRows verses
InitNavVerse ==
  \E K \in SUBSET (1..MaxBook) :
    /\ books = NavBooks(K)
    /\ verses \in {S \in SUBSET {NavRow(b, c, v) : b \in K, c \in 1..MaxChapter,
                                                  v \in 1..MaxVerse} :
                     Cardinality(S) <= MaxRows}
    /\ shapes = BaseOnly
    /\ reqs = NoReqs
    /\ res = NoRes

NextNavVerse == NavVerse \/ NavVerseFollowNext

SpecNavVerse == InitNavVerse /\ [][NextNavVerse]_vars

(***************************************************************************)
(* Navigation claims.                                                      *)
(***************************************************************************)
\* the book key a :bookId string names, if any
KeyOf(bookId) == {k \in BookIds : ToStr(k) = bookId}

\* what the contract asks of adjacentVerse: the nearest verse beyond the given
\* one in the same chapter, else the extreme verse of the adjacent chapter
SpecVerseNext(bookId, chapter, verse) ==
  LET same == {v \in VersesOfParam(bookId, chapter) : v > verse}
      ch == navChapterNext(bookId, chapter)
  IN  IF same # {}
      THEN Some([bookId |-> bookId, chapter |-> chapter, verse |-> SetMin(same)])
      ELSE IF ch = Null THEN Null
      ELSE Some([bookId |-> The(ch).bookId, chapter |-> The(ch).chapter,
                 verse |-> SetMin(VersesOfParam(The(ch).bookId, The(ch).chapter))])

SpecVersePrev(bookId, chapter, verse) ==
  LET same == {v \in VersesOfParam(bookId, chapter) : v < verse}
      ch == navChapterPrev(bookId, chapter)
  IN  IF same # {}
      THEN Some([bookId |-> bookId, chapter |-> chapter, verse |-> SetMax(same)])
      ELSE IF ch = Null THEN Null
      ELSE Some([bookId |-> The(ch).bookId, chapter |-> The(ch).chapter,
                 verse |-> SetMax(VersesOfParam(The(ch).bookId, The(ch).chapter))])

\* C1: adjacentVerse returns the nearest verse beyond the given one in the same
\* chapter if there is one, and otherwise the extreme verse (minimum for next,
\* maximum for prev) of the chapter adjacentChapter returns, so that a chapter
\* of the same book is used before any other book.
C1_AdjacentVerseUsesAdjacentChapter ==
  (res.route = "nav/verse" /\ res.status = 200) =>
     /\ res.next = SpecVerseNext(The(res.bookId), res.chapter, res.verse)
     /\ res.prev = SpecVersePrev(The(res.bookId), res.chapter, res.verse)

\* positions of the corpus in reading order
PosLess(p, q) ==
  \/ p.book_id < q.book_id
  \/ p.book_id = q.book_id /\ p.chapter < q.chapter
  \/ p.book_id = q.book_id /\ p.chapter = q.chapter /\ p.verse < q.verse

\* the verse rows a position names
RowsAt(pos) ==
  {v \in verses : /\ ToStr(v.book_id) = pos.bookId
                  /\ v.chapter = pos.chapter
                  /\ v.verse = pos.verse}

\* an existing position that is neither the first nor the last verse of the corpus
Interior(pos) ==
  \E v \in RowsAt(pos) :
    /\ \E u \in verses : PosLess(u, v)
    /\ \E w \in verses : PosLess(v, w)

\* C2: round trip: for every existing interior position P, the prev link of
\* the position that P's next link names is P again, also across a chapter
\* boundary inside one book.
C2_VerseRoundTrip ==
  (res.route = "nav/verse" /\ res.status = 200 /\ res.from # Null) =>
     (Interior(The(res.from)) => res.prev = res.from)

\* what the contract asks of adjacentChapter for the book with key k
SpecChapterNext(k, chapter) ==
  LET inBook == {c \in ChaptersOf(k) : c > chapter}
      later == {j \in BookIds : j > k}
  IN  IF inBook # {} THEN Some([bookId |-> ToStr(k), chapter |-> SetMin(inBook)])
      ELSE IF k \notin BookIds \/ later = {} THEN Null
      ELSE IF ChaptersOf(SetMin(later)) = {} THEN Null
      ELSE Some([bookId |-> ToStr(SetMin(later)),
                 chapter |-> SetMin(ChaptersOf(SetMin(later)))])

SpecChapterPrev(k, chapter) ==
  LET inBook == {c \in ChaptersOf(k) : c < chapter}
      earlier == {j \in BookIds : j < k}
  IN  IF inBook # {} THEN Some([bookId |-> ToStr(k), chapter |-> SetMax(inBook)])
      ELSE IF k \notin BookIds \/ earlier = {} THEN Null
      ELSE IF ChaptersOf(SetMax(earlier)) = {} THEN Null
      ELSE Some([bookId |-> ToStr(SetMax(earlier)),
                 chapter |-> SetMax(ChaptersOf(SetMax(earlier)))])

\* C3: adjacentChapter returns the nearest chapter of the same book beyond the
\* given one if there is one, otherwise the extreme chapter of the book adjacent
\* in key order, and None when there is no adjacent book or the adjacent book
\* has no chapters (no cascade to a book further away).
C3_AdjacentChapter ==
  (res.route = "nav/chapter") =>
     /\ res.next = SpecChapterNext(DigitsVal(res.bookId), res.chapter)
     /\ res.prev = SpecChapterPrev(DigitsVal(res.bookId), res.chapter)

\* C3 witness: the book has no later chapter, the adjacent book has none at all
\* and a book further away has one, and the answer is None
C3_Witness ==
  /\ res.route = "nav/chapter"
  /\ KeyOf(res.bookId) # {}
  /\ ChaptersOf(DigitsVal(res.bookId)) # {}
  /\ res.next = Null
  /\ res.prev # Null
  /\ \E j \in BookIds : j > DigitsVal(res.bookId) /\ ChaptersOf(j) # {}

\* C4: adjacentBook returns the book just before / after the given one in
\* ascending key order, None before the first and after the last book, and
\* None in both directions for a key that is not in the book list.
C4_AdjacentBook ==
  (res.route = "nav/book") =>
     LET k == KeyOf(res.bookId)
         earlier == {j \in BookIds : k # {} /\ j < The(k)}
         later == {j \in BookIds : k # {} /\ j > The(k)}
     IN  /\ res.prev = (IF earlier = {} THEN Null ELSE Some(SetMax(earlier)))
         /\ res.next = (IF later = {} THEN Null ELSE Some(SetMin(later)))

\* C4 witness: a book with a neighbour on both sides was asked for
C4_Witness ==
  /\ res.route = "nav/book"
  /\ res.prev # Null
  /\ res.next # Null
  /\ The(res.prev) < The(KeyOf(res.bookId))
  /\ The(res.next) > The(KeyOf(res.bookId))

(***************************************************************************)
(* Calls of resolveBookId.  Every route that takes a :bookId starts with   *)
(* one; res records the input, the value returned and, for a repeated      *)
(* call, the value the first call returned.                                *)
(***************************************************************************)
Str1(a) == <<a>>

Str2(a, b) == <<a, b>>

Str3(a, b, c) == <<a, b, c>>

Str4(a, b, c, d) == <<a, b, c, d>>

\* short codes a book can have (none, an all-digit one, a lower-case word)
CodePool == {Null, Some(Str1("1")), Some(Str3("j", "o", "b"))}

\* display names a book can have
NamePool == {Str4("J", "o", "h", "n"), Str3("J", "o", "b"), Str2("J", "o"), Str1("2")}

\* identifiers a caller can send
RawPool ==
  {ToStr(k) : k \in 1..(MaxKey + 1)} \cup
  {<<>>, Str1(" "), Str2("+", "1"),
   Str3("j", "o", "b"), Str3("J", "O", "B"), Str4("j", "o", "h", "n"),
   Str2("j", "o"), Str2("o", "h"), Str1("o"), Str2("z", "z"),
   Str1("%"), Str1("_")}

\* one call of resolveBookId(input)
Resolve ==
  /\ res.route = "none"
  /\ \E input \in RawPool :
       \E r \in resolveBookId(input) :
         res' = [route |-> "resolve", input |-> input, calls |-> 1,
                 out |-> r, first |-> r]
  /\ UNCHANGED <<books, verses, shapes, reqs>>

\* the same identifier is resolved a second time
ResolveAgain ==
  /\ res.route = "resolve"
  /\ res.calls = 1
  /\ \E r \in resolveBookId(res.input) :
       res' = [route |-> "resolve", input |-> res.input, calls |-> 2,
               out |-> r, first |-> res.first]
  /\ UNCHANGED <<books, verses, shapes, reqs>>

\* corpora of the resolver checks: every key is absent or carries any code and
\* name of the pools (codes and names need not be unique)
InitResolve ==
  /\ books \in {{[book_id |-> k, code |-> f[k].code, name |-> f[k].name] : k \in K} :
                  K \in SUBSET (1..MaxKey),
                  f \in [1..MaxKey -> [code : CodePool, name : NamePool]]}
  /\ verses = {}
  /\ shapes = BaseOnly
  /\ reqs = NoReqs
  /\ res = NoRes

NextResolve == Resolve \/ ResolveAgain

SpecResolve == InitResolve /\ [][NextResolve]_vars

(***************************************************************************)
(* Resolver claims.                                                        *)
(***************************************************************************)
\* p is a prefix of t, p occurs in t (both compared literally)
IsPrefix(p, t) == Len(p) <= Len(t) /\ SubSeq(t, 1, Len(p)) = p

Occurs(p, t) ==
  \E i \in 0..(Len(t) - Len(p)) : SubSeq(t, i + 1, i + Len(p)) = p

\* the six strategies as the contract words them: the keys of the books each
\* one matches for the identifier raw
Strategy(n, raw) ==
  CASE n = 1 -> {b.book_id : b \in {r \in books : AllDigits(raw) /\ r.book_id = DigitsVal(raw)}}
    [] n = 2 -> {b.book_id : b \in {r \in books : r.code = Some(raw)}}
    [] n = 3 -> {b.book_id : b \in {r \in books : Lower(r.name) = Lower(raw)}}
    [] n = 4 -> {b.book_id : b \in {r \in books : IsPrefix(Lower(raw), Lower(r.name))}}
    [] n = 5 -> {b.book_id : b \in {r \in books : Occurs(Lower(raw), Lower(r.name))}}
    [] n = 6 -> {b.book_id : b \in {r \in books : NumberOf(raw) = Some(r.book_id)}}

\* the strategies that match some book
Matching(raw) == {n \in 1..6 : Strategy(n, raw) # {}}

\* the keys the contract allows as the result: those of the first matching strategy
Allowed(raw) ==
  IF Matching(raw) = {} THEN {Null}
  ELSE {Some(ToStr(id)) : id \in Strategy(SetMin(Matching(raw)), raw)}

\* C5: resolve tries strict-digit key, exact code, case-insensitive exact name,
\* name prefix, name substring and general numeric key in this order and
\* returns the key found by the first strategy that matches any book; NotFound
\* is returned only when all six match nothing.
C5_FirstMatchingStrategyWins ==
  (res.route = "resolve" /\ res.input # <<>>) =>
     res.out \in Allowed(Trim(res.input))

\* C6: for every book b, resolve(b.code) = b.key and
\* resolve(lowercase(b.name)) = b.key, whatever the other books are.
C6_CodeAndNameResolve ==
  (res.route = "resolve") =>
     \A b \in books :
       /\ (b.code = Some(res.input)) => res.out = Some(ToStr(b.book_id))
       /\ (Lower(b.name) = res.input) => res.out = Some(ToStr(b.book_id))

\* s is a usable identifier: not empty and without surrounding whitespace
Plain(s) == s # <<>> /\ Trim(s) = s

\* s is the decimal string of the key of a book other than b
NamesOtherKey(s, b) ==
  AllDigits(s) /\ \E o \in books : o.book_id # b.book_id /\ o.book_id = DigitsVal(s)

\* C6 as amended: resolve(b.code) = b.key when the code is a usable identifier,
\* is not the decimal string of another book's key and is not another book's
\* code; resolve(lowercase(b.name)) = b.key when the lower-cased name is a
\* usable identifier, is not the decimal string of another book's key, is not
\* another book's code and no other book has the same name up to case.
C6_CodeAndNameResolveUnlessShadowed ==
  (res.route = "resolve") =>
     \A b \in books :
       /\ ( /\ b.code = Some(res.input)
            /\ Plain(res.input)
            /\ ~NamesOtherKey(res.input, b)
            /\ \A o \in books : o.book_id # b.book_id => o.code # b.code )
          => res.out = Some(ToStr(b.book_id))
       /\ ( /\ Lower(b.name) = res.input
            /\ Plain(res.input)
            /\ ~NamesOtherKey(res.input, b)
            /\ \A o \in books :
                 o.book_id # b.book_id =>
                   (o.code # Some(res.input) /\ Lower(o.name) # Lower(b.name)) )
          => res.out = Some(ToStr(b.book_id))

\* C6 witness: a book's code was resolved to its key although another book's
\* display name is the same word
C6_Witness ==
  /\ res.route = "resolve"
  /\ \E b \in books :
       /\ b.code = Some(res.input)
       /\ res.out = Some(ToStr(b.book_id))
       /\ \E o \in books : o.book_id # b.book_id /\ Lower(o.name) = Lower(res.input)

\* C7: for every key k of the corpus, resolve of the decimal string of k
\* returns k, whatever the codes and names of the books are.
C7_KeyStringResolves ==
  (res.route = "resolve") =>
     \A k \in BookIds : (res.input = ToStr(k)) => res.out = Some(ToStr(k))

\* C7 witness: the decimal string of a key was resolved to that key while
\* another book has this string as its short code
C7_Witness ==
  /\ res.route = "resolve"
  /\ \E k \in BookIds :
       /\ res.input = ToStr(k)
       /\ res.out = Some(ToStr(k))
       /\ \E o \in books : o.book_id # k /\ o.code = Some(res.input)

\* g matches nothing: no key (strict or general numeric parsing), no short
\* code, and it occurs in no display name
Garbage(g) ==
  /\ \A b \in books :
       /\ ~(AllDigits(g) /\ DigitsVal(g) = b.book_id)
       /\ NumberOf(g) # Some(b.book_id)
       /\ b.code # Some(g)
       /\ ~Occurs(Lower(g), Lower(b.name))

\* C8: resolve("") is NotFound, and resolve(g) is NotFound for every g that
\* equals no key, equals no short code and occurs in no display name,
\* strings of '%' and '_' included.
C8_GarbageNotFound ==
  (res.route = "resolve") =>
     /\ (res.input = <<>>) => res.out = Null
     /\ Garbage(res.input) => res.out = Null

\* C9: two resolve calls with the same raw string on the unchanged corpus
\* return the same key, also when several books match the deciding strategy.
C9_ResolveDeterministic ==
  (res.route = "resolve" /\ res.calls = 2) => res.out = res.first

\* the rows the deciding step of the handler can pick from, for the trimmed raw
Deciding(raw) ==
  IF AllDigits(raw) /\ ById(DigitsVal(raw)) # {} THEN ById(DigitsVal(raw))
  ELSE IF ByCode(raw) # {} THEN ByCode(raw)
  ELSE IF ByName(raw) # {} THEN ByName(raw)
  ELSE IF ByLike(raw \o <<"%">>) # {} THEN ByLike(raw \o <<"%">>)
  ELSE IF ByLike(<<"%">> \o raw \o <<"%">>) # {} THEN ByLike(<<"%">> \o raw \o <<"%">>)
  ELSE IF NumberOf(raw) # Null THEN ById(The(NumberOf(raw)))
  ELSE {}

\* C9 as amended: two resolve calls with the same raw string on the unchanged
\* corpus return the same key whenever the deciding strategy matches at most
\* one book; when it matches several, each call returns the key of one of them.
C9_ResolveDeterministicWithoutTies ==
  (res.route = "resolve" /\ res.calls = 2 /\ res.input # <<>>) =>
     LET d == Deciding(Trim(res.input))
     IN  /\ Cardinality(d) <= 1 => res.out = res.first
         /\ d # {} => \E id \in d : res.out = Some(ToStr(id))
         /\ d = {} => res.out = Null

\* C9 witness: a second call returned the key of the first although a later
\* strategy matches several books
C9_Witness ==
  /\ res.route = "resolve"
  /\ res.calls = 2
  /\ res.out # Null
  /\ res.out = res.first
  /\ Cardinality(Deciding(Trim(res.input))) = 1
  /\ Cardinality(ByLike(<<"%">> \o Trim(res.input) \o <<"%">>)) > 1

(***************************************************************************)
(* Plain-text search: sanitizeText, normalizedColumnExpr and the route     *)
(* GET /api/search/plain.                                                  *)
(***************************************************************************)
\* .replace of the pilcrow sign by "" (the sign is the character "pilcrow" here)
RECURSIVE RemovePilcrow(_)
RemovePilcrow(s) ==
  IF s = <<>> THEN <<>>
  ELSE IF Head(s) = "pilcrow" THEN RemovePilcrow(Tail(s))
  ELSE <<Head(s)>> \o RemovePilcrow(Tail(s))

\* .replace(/ /g, " ")
NbspToSpace(s) == [i \in 1..Len(s) |-> IF s[i] = "nbsp" THEN " " ELSE s[i]]

\* .replace(/\s+/g, " ")
RECURSIVE CollapseSpaces(_)
CollapseSpaces(s) ==
  IF s = <<>> THEN <<>>
  ELSE IF IsSpace(Head(s))
       THEN <<" ">> \o CollapseSpaces(TrimLeft(s))
  ELSE <<Head(s)>> \o CollapseSpaces(Tail(s))

\* sanitizeText with the pilcrow removed last, after collapsing and trimming
sanitizeText_PilcrowLast(s) ==
  IF s = <<>> THEN <<>>
  ELSE RemovePilcrow(Trim(CollapseSpaces(NbspToSpace(s))))

\* sanitizeText(s) for a string s ("" for a missing one)
sanitizeText(s) ==
  IF s = <<>> THEN <<>>
  ELSE Trim(CollapseSpaces(NbspToSpace(RemovePilcrow(s))))

\* characters of the texts handed to sanitizeText
SanitizeChars == {"a", " ", "\n", "pilcrow", "nbsp"}

\* the texts of at most n characters
RECURSIVE TextsUpTo(_)
TextsUpTo(n) ==
  IF n = 0 THEN {<<>>}
  ELSE TextsUpTo(n - 1) \cup
       {Append(t, c) : t \in {u \in TextsUpTo(n - 1) : Len(u) = n - 1},
                       c \in SanitizeChars}

\* a caller sanitizes a text
Sanitize ==
  /\ res.route = "none"
  /\ \E x \in TextsUpTo(MaxLen) :
       res' = [route |-> "sanitize", x |-> x, calls |-> 1,
               out |-> sanitizeText(x), first |-> sanitizeText(x)]
  /\ UNCHANGED <<books, verses, shapes, reqs>>

\* and sanitizes the result once more
SanitizeAgain ==
  /\ res.route = "sanitize"
  /\ res.calls = 1
  /\ res' = [res EXCEPT !.calls = 2, !.out = sanitizeText(res.out)]
  /\ UNCHANGED <<books, verses, shapes, reqs>>

InitSanitize ==
  /\ books = {}
  /\ verses = {}
  /\ shapes = BaseOnly
  /\ reqs = NoReqs
  /\ res = NoRes

NextSanitize == Sanitize \/ SanitizeAgain

SpecSanitize == InitSanitize /\ [][NextSanitize]_vars

\* the parentheses of the SQL text normalizedColumnExpr returns, in source
\* order: LOWER( ; eleven REPLACE( ; CHAR(10), CHAR(13) and CHAR(9), each
\* followed by the ")" that ends its line; the ")" that ends each of the nine
\* lines from '\r' to '(' ; the ")" of the last line.  (The "(" of the last
\* replacement target is inside a string literal.)
NormExprParens ==
  <<"(">> \o
  <<"(", "(", "(", "(", "(", "(", "(", "(", "(", "(", "(">> \o
  <<"(", ")", ")", "(", ")", ")", "(", ")", ")">> \o
  <<")", ")", ")", ")", ")", ")", ")", ")", ")">> \o
  <<")">>

\* nesting depth after each prefix of a parenthesis sequence
RECURSIVE Depth(_)
Depth(ps) ==
  IF ps = <<>> THEN 0
  ELSE Depth(SubSeq(ps, 1, Len(ps) - 1)) + (IF ps[Len(ps)] = "(" THEN 1 ELSE -1)

\* the store can prepare a statement only if its parentheses balance
Balanced(ps) ==
  /\ Depth(ps) = 0
  /\ \A n \in 1..Len(ps) : Depth(SubSeq(ps, 1, n)) >= 0

\* REPLACE(t, c, ' ') for every character c of the set cs
ReplaceBySpace(t, cs) == [i \in 1..Len(t) |-> IF t[i] \in cs THEN " " ELSE t[i]]

\* the value the eleven nested REPLACE calls under LOWER(' ' || ...) denote
normalizedColumn(t) ==
  Lower(<<" ">> \o ReplaceBySpace(t, {"\n", "\r", "\t", ".", ",", ";", ":", "!", "?"}))

\* LIMIT of both statements of the plain search
ExactLimit == 500

SubstringLimit == 500

\* the ways to leave k of the rows out
RECURSIVE Without(_, _)
Without(rows, k) ==
  IF k = 0 THEN {rows}
  ELSE UNION {Without(rows \ {r}, k - 1) : r \in rows}

\* rows LIMIT n, without ORDER BY: any n of the rows, all of them if fewer
Limit(rows, n) ==
  IF Cardinality(rows) <= n THEN {rows}
  ELSE Without(rows, Cardinality(rows) - n)

\* FROM verses v JOIN books b ON b.book_id = v.book_id, with
\* COALESCE(v.text_plain, '') AS text
JoinedRows ==
  {[book |-> p[1].name, chapter |-> p[2].chapter, verse |-> p[2].verse,
    plain |-> p[2].text_plain,
    text |-> IF p[2].text_plain = Null THEN <<>> ELSE The(p[2].text_plain)] :
     p \in {x \in books \X verses : x[1].book_id = x[2].book_id}}

\* the exact branch: the statement built around normalizedColumnExpr
exactRows(q) ==
  IF Balanced(NormExprParens)
  THEN [ok |-> TRUE,
        rows |-> {j \in JoinedRows :
                    /\ j.plain # Null
                    /\ Like(normalizedColumn(The(j.plain)),
                            <<"%", " ">> \o Lower(q) \o <<" ", "%">>)}]
  ELSE [ok |-> FALSE, rows |-> {}]

\* the substring branch: LOWER(v.text_plain) LIKE '%' || LOWER(?) || '%'
substringRows(q) ==
  {j \in JoinedRows :
     /\ j.plain # Null
     /\ Like(Lower(The(j.plain)), <<"%">> \o Lower(q) \o <<"%">>)}

\* one output line "{book} {chapter}:{verse}. {text}", kept as its parts
Line(r) == [book |-> r.book, chapter |-> r.chapter, verse |-> r.verse,
            text |-> sanitizeText(r.text)]

\* texts a verse can have (none, or one of these)
TextPool ==
  {Null,
   Some(<<"g", "o", "d", "l", "y">>),
   Some(<<"G", "o", "d", ".">>),
   Some(<<"(", "G", "o", "d">>),
   Some(<<"pilcrow", "a", " ", "\n", "g", "o", "d", " ", "i", "s", "nbsp">>)}

\* q parameters a caller can send
QueryPool ==
  {<<>>, <<" ">>, <<"g", "o", "d">>, <<"G", "O", "D">>, <<"g", "o">>,
   <<"g", "o", "%">>, <<"g", "_", "d">>, <<"z", "z">>}

\* app.get("/api/search/plain")
SearchPlain ==
  /\ res.route = "none"
  /\ \E query \in QueryPool, exact \in BOOLEAN :
       LET q == Trim(query)
       IN  IF q = <<>>
           THEN res' = [route |-> "search/plain", q |-> query, exact |-> exact,
                        status |-> 200, body |-> "empty", lines |-> {}]
           ELSE IF shapes.verses # "ok" \/ (exact /\ ~exactRows(q).ok)
           THEN res' = [route |-> "search/plain", q |-> query, exact |-> exact,
                        status |-> 500, body |-> "Error performing search",
                        lines |-> {}]
           ELSE \E rows \in (IF exact THEN Limit(exactRows(q).rows, ExactLimit)
                             ELSE Limit(substringRows(q), SubstringLimit)) :
                  res' = [route |-> "search/plain", q |-> query, exact |-> exact,
                          status |-> 200,
                          body |-> IF rows = {} THEN "No results found." ELSE "lines",
                          lines |-> {Line(r) : r \in rows}]
  /\ UNCHANGED <<books, verses, shapes, reqs>>

\* LIMIT of the two statements of the JSON search
FtsLimit == 200

LikeLimit == 200

\* characters of a full-text token: ASCII letters and digits (every other
\* character of the texts here separates tokens)
IsTokenChar(c) ==
  \/ IsDigit(c)
  \/ \E i \in 1..26 : c = UpperChars[i] \/ c = LowerChars[i]

\* the tokens of a text as the full-text index holds them, case folded
RECURSIVE Tokens(_)
Tokens(t) ==
  IF t = <<>> THEN {}
  ELSE IF ~IsTokenChar(Head(t)) THEN Tokens(Tail(t))
  ELSE LET n == IF \A i \in 1..Len(t) : IsTokenChar(t[i]) THEN Len(t)
                 ELSE (CHOOSE i \in 1..Len(t) :
                         /\ ~IsTokenChar(t[i])
                         /\ \A j \in 1..(i - 1) : IsTokenChar(t[j])) - 1
       IN  {Lower(SubSeq(t, 1, n))} \cup Tokens(SubSeq(t, n + 1, Len(t)))

\* FROM verses_fts f JOIN verses v ON v.id = f.rowid WHERE verses_fts MATCH q:
\* the verses whose indexed text_plain has every term of q as a token
matchRows(q) ==
  {v \in verses : v.text_plain # Null /\ Tokens(q) # {}
                    /\ Tokens(q) \subseteq Tokens(The(v.text_plain))}

\* what the MATCH statement can do: it throws when the table is unusable; a
\* query with characters outside the tokens is a syntax error to one
\* full-text version and a list of terms to another
matchOutcomes(q) ==
  IF shapes.verses_fts # "ok" \/ shapes.verses # "ok" THEN {[ok |-> FALSE, rows |-> {}]}
  ELSE {[ok |-> TRUE, rows |-> rows] : rows \in Limit(matchRows(q), FtsLimit)}
       \cup (IF \A i \in 1..Len(q) : IsTokenChar(q[i]) THEN {}
             ELSE {[ok |-> FALSE, rows |-> {}]})

\* FROM verses WHERE LOWER(text_plain) LIKE '%' || LOWER(?) || '%' LIMIT 200
likeOutcomes(q) ==
  IF shapes.verses # "ok" THEN {[ok |-> FALSE, rows |-> {}]}
  ELSE {[ok |-> TRUE, rows |-> rows] :
          rows \in Limit({v \in verses :
                            /\ v.text_plain # Null
                            /\ Like(Lower(The(v.text_plain)),
                                    <<"%">> \o Lower(q) \o <<"%">>)}, LikeLimit)}

\* one element of the JSON array: book_id AS book, chapter, verse,
\* text_plain AS text
Hit(v) == [book |-> v.book_id, chapter |-> v.chapter, verse |-> v.verse,
           text |-> v.text_plain]

\* app.get("/api/search")
Search ==
  /\ res.route = "none"
  /\ \E query \in QueryPool :
       LET q == Trim(query)
           ftsExists == shapes.verses_fts # "absent"
       IN  IF q = <<>>
           THEN res' = [route |-> "search", q |-> query, fts |-> ftsExists,
                        status |-> 200, hits |-> {}]
           ELSE \E o \in (IF ftsExists THEN matchOutcomes(q) ELSE likeOutcomes(q)) :
                  res' = [route |-> "search", q |-> query, fts |-> ftsExists,
                          status |-> IF o.ok THEN 200 ELSE 500,
                          hits |-> {Hit(v) : v \in o.rows}]
  /\ UNCHANGED <<books, verses, shapes, reqs>>

SearchBook == [book_id |-> 1, code |-> Null, name |-> Str4("J", "o", "h", "n")]

\* schemas of the search checks: the base tables, with or without a full-text
\* table, which can be unusable
SearchShapes ==
  {[BaseOnly EXCEPT !.verses_fts = f] : f \in {"absent", "ok", "broken"}}

\* corpora of the search checks: one book, verses 1..MaxVerse of its chapter 1,
\* each absent or with any text of the pool
InitSearch ==
  /\ books = {SearchBook}
  /\ verses \in {{[book_id |-> 1, chapter |-> 1, verse |-> v, text_plain |-> f[v]] : v \in V} :
                   V \in SUBSET (1..MaxVerse), f \in [1..MaxVerse -> TextPool]}
  /\ shapes \in SearchShapes
  /\ reqs = NoReqs
  /\ res = NoRes

NextSearch == SearchPlain \/ Search

SpecSearch == InitSearch /\ [][NextSearch]_vars

\* a verse of the large corpora: every one of them contains "go"
CapRow(v) ==
  [book_id |-> 1, chapter |-> 1, verse |-> v, text_plain |-> Some(<<"g", "o">>)]

\* sizes of the large corpora: empty, one verse, and around the LIMIT of the
\* JSON search
CapSizes == {0, 1} \cup ((LikeLimit - 1)..MaxHits)

\* large corpora: one book with the verses 1..n of its chapter 1
InitSearchCap ==
  /\ books = {SearchBook}
  /\ verses \in {{CapRow(v) : v \in 1..n} : n \in CapSizes}
  /\ shapes \in SearchShapes
  /\ reqs = NoReqs
  /\ res = NoRes

SpecSearchCap == InitSearchCap /\ [][NextSearch]_vars

(***************************************************************************)
(* Search claims.                                                          *)
(***************************************************************************)
\* normalization as the contract words it: newline, CR, tab and . , ; : ! ? (
\* become a space, the text is lower-cased and gets one leading and one
\* trailing space
SpecNormalize(t) ==
  <<" ">> \o
  Lower(ReplaceBySpace(t, {"\n", "\r", "\t", ".", ",", ";", ":", "!", "?", "("}))
  \o <<" ">>

\* the query occurs in the text as a token delimited by spaces
TokenOf(q, t) == Occurs(<<" ">> \o Lower(q) \o <<" ">>, SpecNormalize(t))

\* C10: exact (whole-word) search returns a verse if and only if the
\* lower-cased query occurs in its normalized text as a token delimited by
\* spaces: "god" matches "God." and "(God", not "godly", and no query matches
\* a verse in which it is only part of a longer word.
C10_ExactSearchMatchesTokens ==
  (res.route = "search/plain" /\ res.exact /\ Trim(res.q) # <<>>) =>
     \A v \in verses :
       (v.text_plain # Null /\ TokenOf(Trim(res.q), The(v.text_plain)))
         <=> (\E l \in res.lines : l.chapter = v.chapter /\ l.verse = v.verse)

\* the response of a substring search: the JSON search, or the plain search
\* with exact off
SubstringResponse ==
  \/ res.route = "search"
  \/ res.route = "search/plain" /\ ~res.exact

\* (chapter, verse) of the verses a search response returned
Returned ==
  IF res.route = "search" THEN {<<h.chapter, h.verse>> : h \in res.hits}
  ELSE {<<l.chapter, l.verse>> : l \in res.lines}

\* the number of hits the statement behind a substring response may return
CodeCap ==
  IF res.route = "search/plain" THEN SubstringLimit
  ELSE IF res.fts THEN FtsLimit ELSE LikeLimit

\* the verses whose plain text contains q anywhere, whatever the case
Containing(q) ==
  {v \in verses : v.text_plain # Null /\ Occurs(Lower(q), Lower(The(v.text_plain)))}

\* C11: every substring search that answers (the JSON search with and without
\* a full-text table, the plain search with exact off) returns every verse
\* whose plain text contains the query case-insensitively, also inside a
\* longer word, unless it returned as many hits as its cap allows.
C11_SubstringSearchFindsEveryVerse ==
  (SubstringResponse /\ res.status = 200 /\ Trim(res.q) # <<>>) =>
     \/ Cardinality(Returned) = CodeCap
     \/ \A v \in Containing(Trim(res.q)) : <<v.chapter, v.verse>> \in Returned

\* C12: an exact search returns at most 500 hits and a substring search, on
\* every route that performs one, at most 200.
C12_HitsWithinCap ==
  /\ (res.route = "search/plain" /\ res.exact) => Cardinality(res.lines) <= 500
  /\ SubstringResponse => Cardinality(Returned) <= 200

\* C13: sanitizeText is idempotent: sanitizing a sanitized text, the empty
\* text and texts of whitespace, pilcrows and non-breaking spaces included,
\* changes nothing.
C13_SanitizeIdempotent ==
  (res.route = "sanitize" /\ res.calls = 2) => res.out = res.first

\* C13 witness: a text with a pilcrow and whitespace that sanitizeText changed
\* to a non-empty text, sanitized twice
C13_Witness ==
  /\ res.route = "sanitize"
  /\ res.calls = 2
  /\ \E i \in 1..Len(res.x) : res.x[i] = "pilcrow"
  /\ \E i \in 1..Len(res.x) : IsSpace(res.x[i])
  /\ res.first # <<>>
  /\ res.first # res.x
  /\ res.out = res.first

(***************************************************************************)
(* Chapter and verse lookup over the three backing shapes: the routes      *)
(* /api/chapters, /api/verses, /api/verses/plain and /api/verse/plain.     *)
(***************************************************************************)
\* db.all / db.get on a shape throws unless the shape exists and is usable
shapeOk(name) ==
  IF name = "verses" THEN shapes.verses = "ok" ELSE shapes[name].state = "ok"

\* the rows of a shape; the views have the column text next to text_plain
shapeRows(name) ==
  IF name = "verses" THEN verses ELSE shapes[name].rows

\* COALESCE(text_plain, text, '') on a view, COALESCE(text_plain, '') on verses
coalesceText(name, r) ==
  IF r.text_plain # Null THEN The(r.text_plain)
  ELSE IF name # "verses" /\ r.text # Null THEN The(r.text)
  ELSE <<>>

\* SELECT DISTINCT chapter FROM <shape> WHERE book_id = ? ORDER BY chapter
chaptersFrom(name, bookId) ==
  {r.chapter : r \in {x \in shapeRows(name) : BookIdEq(x.book_id, bookId)}}

\* SELECT verse, COALESCE(...) AS text FROM <shape>
\* WHERE book_id = ? AND chapter = ? ORDER BY verse ASC
versesFrom(name, bookId, chapter) ==
  {[verse |-> r.verse, text |-> coalesceText(name, r)] :
     r \in {x \in shapeRows(name) :
              BookIdEq(x.book_id, bookId) /\ x.chapter = chapter}}

\* the loop over sources of the chapters route: the first source that does
\* not throw and has rows answers
chaptersOfSources(bookId) ==
  IF shapeOk("verses_api") /\ chaptersFrom("verses_api", bookId) # {}
  THEN chaptersFrom("verses_api", bookId)
  ELSE IF shapeOk("verses_with_book") /\ chaptersFrom("verses_with_book", bookId) # {}
  THEN chaptersFrom("verses_with_book", bookId)
  ELSE IF shapeOk("verses") /\ chaptersFrom("verses", bookId) # {}
  THEN chaptersFrom("verses", bookId)
  ELSE {}

\* the three try blocks of the JSON verses route
versesOfSources(bookId, chapter) ==
  IF shapeOk("verses_api") /\ versesFrom("verses_api", bookId, chapter) # {}
  THEN versesFrom("verses_api", bookId, chapter)
  ELSE IF shapeOk("verses_with_book")
          /\ versesFrom("verses_with_book", bookId, chapter) # {}
  THEN versesFrom("verses_with_book", bookId, chapter)
  ELSE IF shapeOk("verses") THEN versesFrom("verses", bookId, chapter)
  ELSE {}

\* SELECT name FROM sqlite_master WHERE ... name='verses_api' is not undefined
hasVersesApi == shapes.verses_api.state # "absent"

\* the rows of the plain chapter route: verses_api when it exists and answers
\* with rows, else verses
plainRows(bookId, chapter) ==
  LET rows == IF hasVersesApi /\ shapeOk("verses_api")
              THEN versesFrom("verses_api", bookId, chapter) ELSE {}
  IN  IF rows # {} THEN rows
      ELSE IF shapeOk("verses") THEN versesFrom("verses", bookId, chapter)
      ELSE {}

\* the row of the plain single-verse route, as a set with at most one row
plainRow(bookId, chapter, verse) ==
  LET row == IF hasVersesApi /\ shapeOk("verses_api")
             THEN {r \in versesFrom("verses_api", bookId, chapter) : r.verse = verse}
             ELSE {}
  IN  IF row # {} THEN row
      ELSE IF shapeOk("verses")
      THEN {r \in versesFrom("verses", bookId, chapter) : r.verse = verse}
      ELSE {}

\* `${r.verse}. ${r.text.trim()}`, kept as its parts
PlainLine(r) == [verse |-> r.verse, text |-> Trim(r.text)]

\* :bookId parameters of the lookups: the key of the one book and an unknown key
LookupBookParams == {ToStr(1), ToStr(2)}

\* app.get("/api/chapters/:bookId")
Chapters ==
  /\ res.route = "none"
  /\ \E raw \in LookupBookParams : \E r \in resolveBookId(raw) :
       res' = [route |-> "chapters", raw |-> raw, bookId |-> r, status |-> 200,
               chapters |-> IF r = Null THEN {} ELSE chaptersOfSources(The(r))]
  /\ UNCHANGED <<books, verses, shapes, reqs>>

\* app.get("/api/verses/:bookId/:chapter")
Verses ==
  /\ res.route = "none"
  /\ \E raw \in LookupBookParams, chapter \in 1..MaxChapter :
       \E r \in resolveBookId(raw) :
         res' = IF r = Null
                THEN [route |-> "verses", raw |-> raw, bookId |-> r,
                      chapter |-> chapter, status |-> 404, rows |-> {}]
                ELSE [route |-> "verses", raw |-> raw, bookId |-> r,
                      chapter |-> chapter, status |-> 200,
                      rows |-> versesOfSources(The(r), chapter)]
  /\ UNCHANGED <<books, verses, shapes, reqs>>

\* app.get("/api/verses/plain/:bookId/:chapter")
VersesPlain ==
  /\ res.route = "none"
  /\ \E raw \in LookupBookParams, chapter \in 1..MaxChapter :
       \E r \in resolveBookId(raw) :
         res' = IF r = Null
                THEN [route |-> "verses/plain", raw |-> raw, bookId |-> r,
                      chapter |-> chapter, status |-> 404, lines |-> {}]
                ELSE [route |-> "verses/plain", raw |-> raw, bookId |-> r,
                      chapter |-> chapter, status |-> 200,
                      lines |-> {PlainLine(x) : x \in plainRows(The(r), chapter)}]
  /\ UNCHANGED <<books, verses, shapes, reqs>>

\* app.get("/api/verse/plain/:bookId/:chapter/:verse")
VersePlain ==
  /\ res.route = "none"
  /\ \E raw \in LookupBookParams, chapter \in 1..MaxChapter, verse \in 1..MaxVerse :
       \E r \in resolveBookId(raw) :
         res' = IF r = Null \/ plainRow(The(r), chapter, verse) = {}
                THEN [route |-> "verse/plain", raw |-> raw, bookId |-> r,
                      chapter |-> chapter, verse |-> verse, status |-> 404,
                      lines |-> {}]
                ELSE [route |-> "verse/plain", raw |-> raw, bookId |-> r,
                      chapter |-> chapter, verse |-> verse, status |-> 200,
                      lines |-> {PlainLine(x) : x \in plainRow(The(r), chapter, verse)}]
  /\ UNCHANGED <<books, verses, shapes, reqs>>

\* a stored plain text with a pilcrow and a line break, and none at all
LookupTexts == {Null, Some(<<" ", "pilcrow", "a", "\n", "b">>)}

\* the rows a base table can hold: at most MaxShapeRows verses of book 1
LookupRowSets ==
  {S \in SUBSET {[book_id |-> 1, chapter |-> c, verse |-> v, text_plain |-> t] :
                   c \in 1..MaxChapter, v \in 1..MaxVerse, t \in LookupTexts} :
     /\ Cardinality(S) <= MaxShapeRows
     /\ \A x \in S, y \in S : (x.chapter = y.chapter /\ x.verse = y.verse) => x = y}

\* a view over such rows, with its text column
ViewOf(S) ==
  {[book_id |-> x.book_id, chapter |-> x.chapter, verse |-> x.verse,
    text_plain |-> x.text_plain, text |-> Some(<<"t">>)] : x \in S}

\* a view is absent, unusable, or holds rows
LookupViews ==
  {Missing, [state |-> "broken", rows |-> {}]}
  \cup {[state |-> "ok", rows |-> ViewOf(S)] : S \in LookupRowSets}

\* schemas and corpora of the lookups: one book, each shape in any state
InitLookup ==
  /\ books = {SearchBook}
  /\ verses \in LookupRowSets
  /\ shapes \in [verses_api : LookupViews, verses_with_book : LookupViews,
                  verses : {"ok", "broken"}, verses_fts : {"absent"}]
  /\ reqs = NoReqs
  /\ res = NoRes

NextLookup == Chapters \/ Verses \/ VersesPlain \/ VersePlain

SpecLookup == InitLookup /\ [][NextLookup]_vars

(***************************************************************************)
(* Lookup claims.                                                          *)
(***************************************************************************)
\* a sanitized text: no pilcrow, no whitespace but single spaces between
\* other characters (so no non-breaking space, no newline, no run, no
\* leading or trailing whitespace)
Clean(t) ==
  /\ \A i \in 1..Len(t) : t[i] # "pilcrow" /\ (IsSpace(t[i]) => t[i] = " ")
  /\ \A i \in 1..(Len(t) - 1) : ~(t[i] = " " /\ t[i + 1] = " ")
  /\ t # <<>> => (t[1] # " " /\ t[Len(t)] # " ")

\* C14: every verse text a plain-text output emits (plain search, plain
\* chapter, plain single verse) is sanitized, so each verse is one line.
C14_PlainOutputSanitized ==
  (res.route \in {"search/plain", "verses/plain", "verse/plain"}) =>
     \A l \in res.lines : Clean(l.text)

\* C15: when the full-text query of the search raises a store error while
\* the base verse table can be queried, the search answers with the hits of
\* the base-table substring query instead of a failure.
C15_SearchFallsBackToBaseTable ==
  (/\ res.route = "search"
   /\ Trim(res.q) # <<>>
   /\ shapes.verses_fts = "broken"
   /\ shapes.verses = "ok") =>
     /\ res.status = 200
     /\ \E o \in likeOutcomes(Trim(res.q)) : res.hits = {Hit(v) : v \in o.rows}

\* a statement on any of the three backing shapes throws
AllShapesFail ==
  ~shapeOk("verses_api") /\ ~shapeOk("verses_with_book") /\ ~shapeOk("verses")

\* C16: when the book resolves and the query of every backing shape raises a
\* store error, chapter listing and verse lookup answer with a failure (the
\* status 500 of the handlers' catch), never with the answer given for an
\* unknown book or for a book without chapters or verses.
C16_StoreFailureIsReported ==
  (/\ res.route \in {"chapters", "verses", "verses/plain"}
   /\ res.bookId # Null
   /\ AllShapesFail) => res.status = 500

\* the rows of the first shape, in the order verses_api, verses_with_book,
\* verses, whose query F succeeds with a non-empty result; none if there is
\* no such shape
FirstShape(F(_)) ==
  IF shapeOk("verses_api") /\ F("verses_api") # {} THEN F("verses_api")
  ELSE IF shapeOk("verses_with_book") /\ F("verses_with_book") # {}
  THEN F("verses_with_book")
  ELSE IF shapeOk("verses") THEN F("verses")
  ELSE {}

\* C17: chapter listing, JSON verse lookup, plain chapter and plain single
\* verse all answer with the rows of the first of verses_api,
\* verses_with_book and verses that yields a non-empty result; a failing or
\* empty shape is skipped, and no shape is passed over otherwise.
C17_ShapesConsultedInOrder ==
  (res.route \in {"chapters", "verses", "verses/plain", "verse/plain"}
   /\ res.bookId # Null) =>
     LET b == The(res.bookId)
     IN  /\ res.route = "chapters" =>
               res.chapters = FirstShape(LAMBDA n : chaptersFrom(n, b))
         /\ res.route = "verses" =>
               res.rows = FirstShape(LAMBDA n : versesFrom(n, b, res.chapter))
         /\ res.route = "verses/plain" =>
               res.lines = {PlainLine(x) :
                              x \in FirstShape(LAMBDA n : versesFrom(n, b, res.chapter))}
         /\ res.route = "verse/plain" =>
               res.lines = {PlainLine(x) :
                              x \in FirstShape(LAMBDA n :
                                       {r \in versesFrom(n, b, res.chapter) :
                                          r.verse = res.verse})}

(***************************************************************************)
(* Further resolver and navigation claims.                                 *)
(***************************************************************************)
\* C19: resolveBookId returns null for every input that is empty after
\* trimming (the empty string, strings of whitespace), whatever the books.
C19_BlankInputNotFound ==
  (res.route = "resolve" /\ Trim(res.input) = <<>>) => res.out = Null

\* the books that have a chapter
NonEmptyBooks == {b \in BookIds : ChaptersOf(b) # {}}

\* a client asks for the neighbours of the lowest chapter of the first book
\* that has chapters
WalkStart ==
  /\ res.route = "none"
  /\ NonEmptyBooks # {}
  /\ LET b == ToStr(SetMin(NonEmptyBooks))
         c == SetMin(ChaptersOf(SetMin(NonEmptyBooks)))
     IN  res' = [route |-> "walk", bookId |-> b, chapter |-> c,
                 next |-> navChapterNext(b, c),
                 visited |-> <<[bookId |-> b, chapter |-> c]>>]
  /\ UNCHANGED <<books, verses, shapes, reqs>>

\* and follows the next link of each answer while there is one
WalkNext ==
  /\ res.route = "walk"
  /\ res.next # Null
  /\ LET n == The(res.next)
     IN  res' = [route |-> "walk", bookId |-> n.bookId, chapter |-> n.chapter,
                 next |-> navChapterNext(n.bookId, n.chapter),
                 visited |-> Append(res.visited, n)]
  /\ UNCHANGED <<books, verses, shapes, reqs>>

NextWalk == WalkStart \/ WalkNext

SpecWalk == InitNavChapter /\ [][NextWalk]_vars

\* (book key, chapter) of the n-th position of the walk
WalkAt(n) == <<DigitsVal(res.visited[n].bookId), res.visited[n].chapter>>

\* the walk is strictly increasing in (book key, chapter)
WalkIncreasing ==
  \A n \in 1..(Len(res.visited) - 1) :
    \/ WalkAt(n)[1] < WalkAt(n + 1)[1]
    \/ WalkAt(n)[1] = WalkAt(n + 1)[1] /\ WalkAt(n)[2] < WalkAt(n + 1)[2]

\* the chapters of a set of books
ChaptersIn(B) == {<<v.book_id, v.chapter>> : v \in {x \in verses : x.book_id \in B}}

\* C20: the walk from the lowest chapter of the first book with chapters
\* along adjacentChapter(next) is strictly increasing and returns None only
\* when it has visited every chapter of the corpus, also when a book between
\* two books with chapters has none.
C20_WalkVisitsEveryChapter ==
  (res.route = "walk") =>
     /\ WalkIncreasing
     /\ res.next = Null =>
          {WalkAt(n) : n \in 1..Len(res.visited)} = ChaptersIn(BookIds)

\* the books the walk reaches: from the first book with chapters up to the
\* last book before the first book without chapters
FirstRun ==
  {b \in NonEmptyBooks :
     \A j \in BookIds : (SetMin(NonEmptyBooks) <= j /\ j <= b) => ChaptersOf(j) # {}}

\* C20 as amended: the walk is strictly increasing and returns None exactly
\* when it has visited every chapter of the books from the first book with
\* chapters up to the first following book without chapters; it visits every
\* chapter of the corpus if and only if no book without chapters lies between
\* two books with chapters.
C20_WalkVisitsFirstRun ==
  (res.route = "walk") =>
     /\ WalkIncreasing
     /\ {WalkAt(n) : n \in 1..Len(res.visited)} \subseteq ChaptersIn(FirstRun)
     /\ res.next = Null <=>
          {WalkAt(n) : n \in 1..Len(res.visited)} = ChaptersIn(FirstRun)

\* C20 witness: a walk over several chapters has ended before a book without
\* chapters that a book with chapters follows
C20_Witness ==
  /\ res.route = "walk"
  /\ res.next = Null
  /\ Len(res.visited) >= 2
  /\ FirstRun # NonEmptyBooks

(***************************************************************************)
(* Requests in flight.  Each request runs its handler from await to await; *)
(* a step of a request is the code between two of its awaits, and steps of *)
(* different requests interleave.  reqs[i] holds the parameters of request *)
(* i, the await it is suspended at (pc) and the handler's local variables. *)
(***************************************************************************)
NoOut == [status |-> 0, bookId |-> Null, prev |-> Null, next |-> Null, hits |-> {}]

\* a request as it arrives: input is :bookId (q for the search)
NewReq(kind, input, chapter, verse) ==
  [kind |-> kind, input |-> input, chapter |-> chapter, verse |-> verse,
   pc |-> "start", bookId |-> Null, nextSame |-> Null, prevSame |-> Null,
   next |-> Null, prev |-> Null, adjBook |-> 0, adjChap |-> 0, out |-> NoOut]

\* raw kept in one variable that every call of resolveBookId assigns
rawOf_Shared(i) == Trim(reqs[Len(reqs)].input)

\* const raw = String(input).trim(), a constant of the call
rawOf(i) == Trim(reqs[i].input)

\* res.json / res.status(...).json of request q
finish(q, status) ==
  [q EXCEPT !.pc = "done",
            !.out = [status |-> status, bookId |-> q.bookId, prev |-> q.prev,
                     next |-> q.next, hits |-> {}]]

\* resolveBookId returns r to its caller: the resolver request is answered,
\* the nav/verse handler goes on (404 for null)
returned(q, r) ==
  IF q.kind = "resolve" THEN finish([q EXCEPT !.bookId = r], 200)
  ELSE IF r = Null THEN finish(q, 404)
  ELSE [q EXCEPT !.bookId = r, !.pc = "nextSame"]

\* a db.get of resolveBookId that found the rows S: String(row.book_id) of one
\* of them is returned, with no row the call goes on as orElse
resolveGet(q, S, orElse) ==
  IF S # {} THEN {returned(q, Some(ToStr(id))) : id \in S} ELSE {orElse}

\* the steps of resolveBookId
resolveStep(i) ==
  LET q == reqs[i]
      raw == rawOf(i)
  IN  CASE q.pc = "start" ->
             IF q.input = <<>> THEN {returned(q, Null)}
             ELSE IF AllDigits(raw) THEN {[q EXCEPT !.pc = "byId"]}
             ELSE {[q EXCEPT !.pc = "byCode"]}
        [] q.pc = "byId" ->
             resolveGet(q, IF AllDigits(raw) THEN ById(DigitsVal(raw)) ELSE {},
                        [q EXCEPT !.pc = "byCode"])
        [] q.pc = "byCode" -> resolveGet(q, ByCode(raw), [q EXCEPT !.pc = "byName"])
        [] q.pc = "byName" -> resolveGet(q, ByName(raw), [q EXCEPT !.pc = "byLike"])
        [] q.pc = "byLike" ->
             resolveGet(q, ByLike(raw \o <<"%">>), [q EXCEPT !.pc = "byLikeAnywhere"])
        [] q.pc = "byLikeAnywhere" ->
             resolveGet(q, ByLike(<<"%">> \o raw \o <<"%">>),
                        IF NumberOf(raw) # Null THEN [q EXCEPT !.pc = "byId2"]
                        ELSE returned(q, Null))
        [] q.pc = "byId2" ->
             resolveGet(q, IF NumberOf(raw) # Null THEN ById(The(NumberOf(raw))) ELSE {},
                        returned(q, Null))

\* the prev half of the nav/verse handler, entered once next is settled
afterNext(q) ==
  IF q.prevSame # Null
  THEN finish([q EXCEPT !.prev = Some([bookId |-> The(q.bookId), chapter |-> q.chapter,
                                       verse |-> The(q.prevSame)])], 200)
  ELSE [q EXCEPT !.pc = "booksPrev"]

\* the steps of the nav/verse handler after resolveBookId
navVerseStep(i) ==
  LET q == reqs[i]
      b == The(q.bookId)
      bks == OrderedBooks
      idx == FindIndex(bks, b)
  IN  CASE q.pc = "nextSame" ->
             [q EXCEPT !.pc = "prevSame",
                       !.nextSame = SqlMin({v \in VersesOfParam(b, q.chapter) : v > q.verse})]
        [] q.pc = "prevSame" ->
             LET p == SqlMax({v \in VersesOfParam(b, q.chapter) : v < q.verse})
                 r == [q EXCEPT !.prevSame = p]
             IN  IF q.nextSame # Null
                 THEN afterNext([r EXCEPT !.next = Some([bookId |-> b, chapter |-> q.chapter,
                                                         verse |-> The(q.nextSame)])])
                 ELSE [r EXCEPT !.pc = "booksNext"]
        [] q.pc = "booksNext" ->
             IF idx >= 0 /\ idx < Len(bks) - 1
             THEN [q EXCEPT !.pc = "nextChap", !.adjBook = bks[idx + 2]]
             ELSE afterNext(q)
        [] q.pc = "nextChap" ->
             IF SqlMin(ChaptersOf(q.adjBook)) # Null
             THEN [q EXCEPT !.pc = "firstVerse",
                            !.adjChap = The(SqlMin(ChaptersOf(q.adjBook)))]
             ELSE afterNext(q)
        [] q.pc = "firstVerse" ->
             afterNext([q EXCEPT !.next =
                          Some([bookId |-> ToStr(q.adjBook), chapter |-> q.adjChap,
                                verse |-> The(SqlMin(VersesOf(q.adjBook, q.adjChap)))])])
        [] q.pc = "booksPrev" ->
             IF idx > 0
             THEN [q EXCEPT !.pc = "prevChap", !.adjBook = bks[idx]]
             ELSE finish(q, 200)
        [] q.pc = "prevChap" ->
             IF SqlMax(ChaptersOf(q.adjBook)) # Null
             THEN [q EXCEPT !.pc = "lastVerse",
                            !.adjChap = The(SqlMax(ChaptersOf(q.adjBook)))]
             ELSE finish(q, 200)
        [] q.pc = "lastVerse" ->
             finish([q EXCEPT !.prev =
                       Some([bookId |-> ToStr(q.adjBook), chapter |-> q.adjChap,
                             verse |-> The(SqlMax(VersesOf(q.adjBook, q.adjChap)))])], 200)

\* the answer of the JSON search for a statement outcome o
searchDone(q, o) ==
  [q EXCEPT !.pc = "done",
            !.out = [NoOut EXCEPT !.status = IF o.ok THEN 200 ELSE 500,
                                  !.hits = {Hit(v) : v \in o.rows}]]

\* the steps of the JSON search handler
searchStep(i) ==
  LET q == reqs[i]
  IN  CASE q.pc = "start" ->
             IF Trim(q.input) = <<>> THEN {searchDone(q, [ok |-> TRUE, rows |-> {}])}
             ELSE {[q EXCEPT !.pc = "ftsExists"]}
        [] q.pc = "ftsExists" ->
             IF shapes.verses_fts # "absent" THEN {[q EXCEPT !.pc = "match"]}
             ELSE {[q EXCEPT !.pc = "like"]}
        [] q.pc = "match" -> {searchDone(q, o) : o \in matchOutcomes(Trim(q.input))}
        [] q.pc = "like" -> {searchDone(q, o) : o \in likeOutcomes(Trim(q.input))}

ResolvePcs == {"start", "byId", "byCode", "byName", "byLike", "byLikeAnywhere", "byId2"}

\* what request i can be after its next step
step(i) ==
  IF reqs[i].kind = "search" THEN searchStep(i)
  ELSE IF reqs[i].pc \in ResolvePcs THEN resolveStep(i)
  ELSE {navVerseStep(i)}

\* the requests clients send
ReqPool ==
  {NewReq("resolve", Str2("z", "z"), 0, 0),
   NewReq("nav/verse", Str1("1"), 1, 2), NewReq("nav/verse", Str2("j", "o"), 1, 1),
   NewReq("search", Str1("a"), 0, 0)}

\* a request arrives
Arrive ==
  /\ Len(reqs) < MaxReq
  /\ \E q \in ReqPool : reqs' = Append(reqs, q)
  /\ UNCHANGED <<books, verses, shapes, res>>

\* a request in flight runs to its next await or to its answer
Advance ==
  /\ \E i \in DOMAIN reqs :
       /\ reqs[i].pc # "done"
       /\ \E n \in step(i) : reqs' = [reqs EXCEPT ![i] = n]
  /\ UNCHANGED <<books, verses, shapes, res>>

\* the books "John" and "Job", which tie on "jo"
ConcBooks ==
  {[book_id |-> 1, code |-> Null, name |-> Str4("J", "o", "h", "n")],
   [book_id |-> 2, code |-> Null, name |-> Str3("J", "o", "b")]}

\* corpora of the interleaved runs: verses 1:1 and 1:2 of book 1, with or
\* without verse 1:1 of book 2, with or without a full-text table
InitConc ==
  /\ books = ConcBooks
  /\ verses \in {{NavRow(1, 1, 1), NavRow(1, 1, 2)} \cup S :
                   S \in SUBSET {NavRow(2, 1, 1)}}
  /\ shapes \in {BaseOnly, [BaseOnly EXCEPT !.verses_fts = "ok"]}
  /\ reqs = NoReqs
  /\ res = NoRes

NextConc == Arrive \/ Advance

SpecConc == InitConc /\ [][NextConc]_vars

(***************************************************************************)
(* Concurrency claim.                                                      *)
(***************************************************************************)
\* the answers request q can get when its handler runs alone, from its first
\* statement to its answer with no other request in between
Alone(q) ==
  IF q.kind = "search"
  THEN IF Trim(q.input) = <<>> THEN {[NoOut EXCEPT !.status = 200]}
       ELSE {[NoOut EXCEPT !.status = IF o.ok THEN 200 ELSE 500,
                           !.hits = {Hit(v) : v \in o.rows}] :
               o \in (IF shapes.verses_fts # "absent"
                      THEN matchOutcomes(Trim(q.input))
                      ELSE likeOutcomes(Trim(q.input)))}
  ELSE IF q.kind = "resolve"
  THEN {[NoOut EXCEPT !.status = 200, !.bookId = r] : r \in resolveBookId(q.input)}
  ELSE {IF r = Null THEN [NoOut EXCEPT !.status = 404]
        ELSE [status |-> 200, bookId |-> r,
              prev |-> navVersePrev(The(r), q.chapter, q.verse),
              next |-> navVerseNext(The(r), q.chapter, q.verse), hits |-> {}] :
          r \in resolveBookId(q.input)}

\* a step leaves the store alone, changes the variables of at most one request,
\* and a request it answers gets an answer it can get when run alone
IsolatedStep ==
  /\ books' = books /\ verses' = verses /\ shapes' = shapes
  /\ \A i \in DOMAIN reqs, j \in DOMAIN reqs :
       (reqs'[i] # reqs[i] /\ reqs'[j] # reqs[j]) => i = j
  /\ \A i \in DOMAIN reqs :
       (reqs[i].pc # "done" /\ reqs'[i].pc = "done") =>
          reqs'[i].out \in Alone(reqs'[i])

\* C18: on an unchanged corpus, resolver, navigation and search requests that
\* interleave at their awaits each get an answer they get when run alone, and
\* no step of a request writes anything another request reads.
C18_RequestsDoNotInterfere == [][IsolatedStep]_vars

\* C18 witness: a nav/verse request was answered while a resolver request
\* that arrived before it is still suspended at one of its awaits
C18_Witness ==
  /\ Len(reqs) = 2
  /\ reqs[1].kind = "resolve"
  /\ reqs[1].pc \notin {"start", "done"}
  /\ reqs[2].kind = "nav/verse"
  /\ reqs[2].pc = "done"
  /\ reqs[2].out.status = 200
  /\ reqs[2].out.next # Null

====
